---------------------------- MODULE Spec2Model ----------------------------
(***************************************************************************)
(* Review-to-Standby content pipeline of jj_wk_ws.                         *)
(*                                                                         *)
(* Two implementations of the same three stages are modelled side by side: *)
(*   impl = "pipeline" : pipeline.py + sheets_client.py + ai_service.py    *)
(*   impl = "app"      : DecisionProcessor / AIProcessor /                 *)
(*                       GoogleSheetsManager of app.py                     *)
(* The spreadsheet is the only persisted state.  A cell text is a sequence *)
(* of one-character strings.  TLA+ string literals are ASCII, so the       *)
(* non-ASCII literals of the source have stand-ins:                        *)
(*   "#"  = the glyph U+1F7E8 of AI_ICON          ";"  = full-width comma  *)
(*   "|"  = ideographic comma                                              *)
(*   "use_and_keep", "keep", "pending", "pending_approval" = the four      *)
(*   decision texts, "cloze" = the fixed type of item A,                   *)
(*   "antonym" = one of QUESTION_TYPES.                                    *)
(***************************************************************************)
EXTENDS Naturals, Sequences, FiniteSets

VARIABLES impl, statusAtD, reviewExists, standbyExists, tm, form, review,
          standby, nextRid, clock, removed, imported, calls, batch, summary,
          clearLog, report, hung, inflight, overlapped

vars == <<impl, statusAtD, reviewExists, standbyExists, tm, form, review,
          standby, nextRid, clock, removed, imported, calls, batch, summary,
          clearLog, report, hung, inflight, overlapped>>

\* ------------------------------------------------------------------ bounds
MaxForm == 2
MaxReview == 2
MaxStandby == 2
MaxClock == 2

\* --------------------------------------------------------------- constants
Glyph == "#"
Space == " "
AI_ICON == <<Glyph, Space>>
DONE == "Done"
READY == "Ready"
WAITING == "Waiting"
CLOZE == "cloze"
PENDING == "pending"
Accepting == {"use_and_keep", "keep"}
Buttons == {"use_and_keep", "keep", "pending_approval"}
CoreButtons == {"keep", "pending_approval"}
QUESTION_TYPES == {"antonym"}

\* --------------------------------------------------------- text operators
RECURSIVE LStrip(_)
LStrip(s) == IF s # <<>> /\ Head(s) = Space THEN LStrip(Tail(s)) ELSE s

RECURSIVE RStrip(_)
RStrip(s) == IF s # <<>> /\ s[Len(s)] = Space
             THEN RStrip(SubSeq(s, 1, Len(s) - 1)) ELSE s

\* str.strip()
Strip(s) == RStrip(LStrip(s))

\* prefix test
StartsWith(s, p) == Len(s) >= Len(p) /\ SubSeq(s, 1, Len(p)) = p

\* `p in s` / Series.str.contains(p) for a literal p
Contains(s, p) == \E k \in 0..(Len(s) - Len(p)) : SubSeq(s, k + 1, k + Len(p)) = p

\* str.split(sep) for a one-character separator: every occurrence cuts
RECURSIVE SplitOn(_, _, _)
SplitOn(s, sep, cur) ==
    IF s = <<>> THEN <<cur>>
    ELSE IF Head(s) = sep THEN <<cur>> \o SplitOn(Tail(s), sep, <<>>)
    ELSE SplitOn(Tail(s), sep, Append(cur, Head(s)))

\* re.split on the class of comma, full-width comma, whitespace and
\* ideographic comma, one or more times: a run of
\* delimiters cuts once; a leading or trailing run yields an empty piece
PipelineDelims == {",", ";", Space, "|"}

RECURSIVE ReSplit(_, _, _)
ReSplit(s, cur, inRun) ==
    IF s = <<>> THEN <<cur>>
    ELSE IF Head(s) \in PipelineDelims
         THEN IF inRun THEN ReSplit(Tail(s), cur, TRUE)
              ELSE <<cur>> \o ReSplit(Tail(s), <<>>, TRUE)
    ELSE ReSplit(Tail(s), Append(cur, Head(s)), FALSE)

\* the stripped, non-empty pieces, in order
RECURSIVE StripNonEmpty(_)
StripNonEmpty(ps) ==
    IF ps = <<>> THEN <<>>
    ELSE IF Strip(Head(ps)) = <<>> THEN StripNonEmpty(Tail(ps))
    ELSE <<Strip(Head(ps))>> \o StripNonEmpty(Tail(ps))

PipelineWords(raw) == StripNonEmpty(ReSplit(raw, <<>>, FALSE))
AppWords(raw) == StripNonEmpty(SplitOn(raw, ",", <<>>))


\* ------------------------------------------------------------ table rows
\* Every cell is a text; <<>> is the empty cell.  rid and sub are history
\* fields (not cells): the identity a Review row got when Import created
\* it and the intake row it came from; src is the rid an item was made of.
\* History variables record what the steps did: calls (the completion
\* requests of the last step), batch (the items a Promotion run handed to
\* the Standby write), removed (the rids of the rows whose clearing by
\* Promotion completed) and imported (the intake rows processed by an
\* Import run all of whose spreadsheet calls succeeded).  clearLog is the
\* Review rows (frame positions) for which a Promotion run issued its
\* clearing calls, in the order of the calls.  hung tells that an
\* invocation waits for a completion reply that never comes, and
\* overlapped that an invocation of Promotion read the tables while
\* another one was between its read and the end of its clearing.
Txt(c) == <<c>>
Empty == <<>>

\* statusAtD tells whether the status column of the intake table is its
\* column D; when it is another column, d is the row's cell in column D
FormRow(ts, school, words, status) ==
    [ts |-> ts, school |-> school, words |-> words, status |-> status, d |-> Empty]

ReviewCols == <<"ts", "school", "word", "sentence", "next_type",
                "next_question", "next_answer", "decision">>

ReviewRow(ts, school, word, sentence, decision, rid, sub) ==
    [ts |-> ts, school |-> school, word |-> word, sentence |-> sentence,
     next_type |-> Empty, next_question |-> Empty, next_answer |-> Empty,
     decision |-> decision, rid |-> rid, sub |-> sub]

\* a row of the grid with no cell content
IsBlank(r) == \A c \in DOMAIN r \ {"rid", "sub", "src"} : r[c] = Empty

\* trailing blank rows of a grid are not part of its data
RECURSIVE Trim(_)
Trim(t) == IF t # <<>> /\ IsBlank(t[Len(t)])
           THEN Trim(SubSeq(t, 1, Len(t) - 1)) ELSE t

Indices(t) == 1..Len(t)

\* ---------------------------------------------------------- input domains
Schools == {Txt("A"), Empty}
Timestamp == Txt("t")
WordA == Txt("a")
WordB == Txt("b")
RawLists == { WordA,
              <<"a", ",", "b">>,
              <<"b", Space, "a">> }
CoreRawLists == { WordA }
\* a word that the reference table holds and one that it lacks
MixedRawLists == { <<"a", ",", "b">> }
\* the reference table P2_TM: rows [word, sentence]
TMChoices == { << [word |-> WordA, sentence |-> <<"x", "a">>] >> }


\* ------------------------------------------------------ completion service
\* What one completion request can come to.  The reply texts are an input;
\* three replies and three failures are enumerated.
OkOutcomes == {"with_word", "without_word", "padded"}
FailOutcomes == {"no_key", "network", "http"}
Outcomes == OkOutcomes \cup FailOutcomes
CoreOutcomes == {"with_word"}
\* "silent": the endpoint accepts the request and never responds
LiveOutcomes == {"with_word", "silent"}

\* the content string of choices[0].message of a sentence reply
ReplyText(oc, word) ==
    CASE oc = "with_word" -> <<"x">> \o word
      [] oc = "without_word" -> <<"x">>
      [] OTHER -> <<Space>> \o word \o <<Space>>

\* the API key is one setting of a run: either every request of the run
\* finds it missing or none does
KeyConsistent(oc) ==
    (\E n \in DOMAIN oc : oc[n] = "no_key") => (\A n \in DOMAIN oc : oc[n] = "no_key")

\* "AI Error: <e>", one stand-in character
ErrorText == <<"E">>
\* "AI generation failed"
FailedText == <<"F">>
\* "AI API key not set"
NoKeyText == <<"K">>

\* generate_sentence_by_ai without the icon in front of the reply
generate_sentence_by_ai_bare(word, oc) ==
    IF oc \in OkOutcomes THEN Strip(ReplyText(oc, word))
    ELSE AI_ICON \o ErrorText

\* ai_service.generate_sentence_by_ai
generate_sentence_by_ai(word, oc) ==
    IF oc \in OkOutcomes THEN AI_ICON \o Strip(ReplyText(oc, word))
    ELSE AI_ICON \o ErrorText

\* AIProcessor.generate_sentence; requests.post(..., timeout=30) raises
\* when the endpoint stays silent
generate_sentence(word, oc) ==
    CASE oc = "no_key" -> AI_ICON \o NoKeyText
      [] oc \in OkOutcomes -> AI_ICON \o Strip(ReplyText(oc, word))
      [] oc = "http" -> AI_ICON \o FailedText
      [] OTHER -> AI_ICON \o ErrorText

\* ------------------------------------------------------- reference lookup
\* dict(zip(words, sentences)): the last row of a word wins
PipelineTmHas(t, w) == \E k \in Indices(t) : t[k].word = w
PipelineTmGet(t, w) ==
    LET last == CHOOSE k \in Indices(t) :
                  t[k].word = w /\ \A m \in Indices(t) : t[m].word = w => m <= k
    IN t[last].sentence

\* word_to_sentence[str(row[word]).strip()] = row[sentence]
AppTmHas(t, w) == \E k \in Indices(t) : Strip(t[k].word) = w
AppTmGet(t, w) ==
    LET last == CHOOSE k \in Indices(t) :
                  Strip(t[k].word) = w
                  /\ \A m \in Indices(t) : Strip(t[m].word) = w => m <= k
    IN t[last].sentence

\* ------------------------------------------------------ spreadsheet gateway
\* worksheet.append_rows: the rows go below the last row holding data
AppendRows(t, rows) == Trim(t) \o rows

\* rank of i in the ascending enumeration of S
Rank(i, S) == Cardinality({x \in S : x <= i})

\* update_cell(form, idx + 2, status column, value) for the rows of S whose
\* call succeeded (ok = the ranks of the successful calls)
MarkDone(f, S, ok) ==
    [i \in Indices(f) |->
        IF i \in S /\ Rank(i, S) \in ok THEN [f[i] EXCEPT !.status = Txt(DONE)]
        ELSE f[i]]

\* update_cell(form, "D<idx + 2>", "Done"): the cell of column D, whatever
\* column holds the status
MarkColumnD(f, S, ok, atD) ==
    [i \in Indices(f) |->
        IF i \in S /\ Rank(i, S) \in ok
        THEN (IF atD THEN [f[i] EXCEPT !.status = Txt(DONE)]
              ELSE [f[i] EXCEPT !.d = Txt(DONE)])
        ELSE f[i]]

\* the ways n calls in a row go when a failure is an exception that ends
\* the run: the first k succeed
Prefixes(n) == {1..k : k \in 0..n}

\* the ways n calls go when each failure is caught and reported and the
\* next call is made all the same: from some call on, every call fails
Survivors(n) == Prefixes(n)

\* Whether the spreadsheet calls of a stage may fail is an input of the
\* stage's action (faulty): a specification explores the failures of the
\* stage it studies and lets the calls of the other stages succeed.
CallResults(faulty) == IF faulty THEN BOOLEAN ELSE {TRUE}
RaisingCalls(n, faulty) == IF faulty THEN Prefixes(n) ELSE {1..n}
CaughtCalls(n, faulty) == IF faulty THEN Survivors(n) ELSE {1..n}


\* What a Question Generation run reported when it ended (summary; it is
\* NoSummary after every other step): kind is "nothing" (no row to
\* process), "count" (the count of the final message) or "raised" (the run
\* ended with an exception); full and bad are the rows whose completion
\* request brought a question object and the rows whose request failed.
NoSummary == [kind |-> "none", count |-> 0, full |-> {}, bad |-> {}]

\* What an Import or Promotion run reported when it ended (report; it is
\* NoReport after every other step): kind is "empty" (the table read has
\* no record), "nothing" (no row to process, no word, or the write of the
\* new rows was refused), "success" (the final message, with its count) or
\* "raised" (the run ended with an exception); backend is "down" when the
\* run had no connection to the spreadsheet.
NoReport == [stage |-> "none", kind |-> "none", count |-> 0, backend |-> "up"]
Report(stage, kind, count, conn) ==
    [stage |-> stage, kind |-> kind, count |-> count,
     backend |-> IF conn THEN "up" ELSE "down"]

\* The invocations of Promotion that run side by side: what each has done
\* so far (pc), the rows of the Review frame it took (todo), the records it
\* built (rows) and whether the Standby frame it read was empty (fresh).
Procs == {1, 2}
IdleRun == [pc |-> "idle", todo |-> {}, rows |-> <<>>, fresh |-> FALSE]

\* ------------------------------------------------------------------- Init
Init ==
    /\ impl \in {"pipeline", "app"}
    \* Pipeline finds the status column by its name, wherever it is
    /\ statusAtD \in (IF impl = "app" THEN BOOLEAN ELSE {TRUE})
    /\ imported = {}
    /\ summary = NoSummary
    /\ clock = 1
    /\ clearLog = <<>>
    /\ report = NoReport
    /\ hung = FALSE
    /\ inflight = [p \in Procs |-> IdleRun]
    /\ overlapped = FALSE
    /\ reviewExists \in BOOLEAN
    /\ standbyExists \in BOOLEAN
    /\ tm \in TMChoices
    /\ form = <<>>
    /\ review = <<>>
    /\ standby = <<>>
    /\ nextRid = 1
    /\ removed = {}
    /\ calls = {}
    /\ batch = <<>>

\* The external form adds one Submission to the intake table.
FormSubmit(raws) ==
    /\ Len(form) < MaxForm
    /\ \E school \in Schools, raw \in raws :
         form' = Append(form, FormRow(Timestamp, school, raw, Empty))
    /\ calls' = {}
    /\ batch' = <<>>
    /\ summary' = NoSummary
    /\ clearLog' = <<>>
    /\ report' = NoReport
    /\ UNCHANGED <<impl, statusAtD, hung, inflight, overlapped, clock, reviewExists, standbyExists, tm, review, standby, nextRid,
                 removed, imported>>

\* ----------------------------------------------------- Import (pipeline.py)
\* pending = form_df[status != Done]
PipelinePending(f) == {i \in Indices(f) : f[i].status # Txt(DONE)}

\* the (intake row, word) pairs of a run, in the order the loops visit them
RECURSIVE PipelineSlots(_, _)
PipelineSlots(f, i) ==
    IF i > Len(f) THEN <<>>
    ELSE (IF i \in PipelinePending(f)
          THEN LET ws == PipelineWords(f[i].words)
               IN [j \in 1..Len(ws) |-> [sub |-> i, word |-> ws[j]]]
          ELSE <<>>) \o PipelineSlots(f, i + 1)

\* new_review_rows: seven cells a row, the decision cell is not written
PipelineNewRows(f, t, oc, rid) ==
    LET slots == PipelineSlots(f, 1)
    IN [n \in 1..Len(slots) |->
          LET w == slots[n].word
              i == slots[n].sub
          IN ReviewRow(f[i].ts, f[i].school, w,
                       IF PipelineTmHas(t, w) THEN PipelineTmGet(t, w)
                       ELSE generate_sentence_by_ai(w, oc[n]),
                       Empty, rid + n - 1, i)]

\* the first request of a run that never gets its reply (0: there is none)
FirstSilent(miss, oc) ==
    IF \E n \in miss : oc[n] = "silent"
    THEN CHOOSE n \in miss : oc[n] = "silent" /\ \A m \in miss : oc[m] = "silent" => n <= m
    ELSE 0

PipelineImport(replies, faulty) ==
    /\ impl = "pipeline"
    /\ ~hung
    \* an intake or reference table without records has no columns: KeyError
    /\ form # <<>> /\ tm # <<>>
    /\ LET pend == PipelinePending(form)
           slots == PipelineSlots(form, 1)
           miss == {n \in 1..Len(slots) : ~PipelineTmHas(tm, slots[n].word)}
       IN /\ nextRid + Len(slots) <= MaxReview + 1
          /\ \E conn \in CallResults(faulty), oc \in [miss -> replies] :
             LET first == FirstSilent(miss, oc)
             IN /\ KeyConsistent(oc)
                /\ hung' = (conn /\ first # 0)
                /\ IF ~conn
                   \* read_sheet_as_df raised: the run ends there
                   THEN /\ calls' = {}
                        /\ report' = Report("import", "raised", 0, FALSE)
                        /\ UNCHANGED <<form, review, nextRid, imported>>
                   ELSE IF pend = {}
                   THEN /\ calls' = {}
                        /\ report' = Report("import", "nothing", 0, TRUE)
                        /\ UNCHANGED <<form, review, nextRid, imported>>
                   ELSE IF first # 0
                   \* requests.post without a timeout: the call does not return
                   THEN /\ calls' = {<<"sentence", slots[n].sub, slots[n].word>> :
                                       n \in {m \in miss : m <= first}}
                        /\ report' = Report("import", "hung", 0, TRUE)
                        /\ UNCHANGED <<form, review, nextRid, imported>>
                   ELSE /\ calls' = {<<"sentence", slots[n].sub, slots[n].word>> : n \in miss}
                        /\ IF slots = <<>>
                           THEN /\ report' = Report("import", "nothing", 0, TRUE)
                                /\ UNCHANGED <<form, review, nextRid, imported>>
                           ELSE \E appended \in CallResults(faulty),
                                   ok \in RaisingCalls(Cardinality(pend), faulty) :
                                LET rows == PipelineNewRows(form, tm, oc, nextRid)
                                IN IF ~appended
                                   \* append_rows raised: the run ends there
                                   THEN /\ reviewExists /\ ok = {}
                                        /\ report' = Report("import", "raised", 0, TRUE)
                                        /\ UNCHANGED <<form, review, nextRid, imported>>
                                   \* SheetsClient.append_rows does nothing, silently,
                                   \* when get_sheet found no worksheet
                                   ELSE /\ review' = IF reviewExists THEN AppendRows(review, rows)
                                                     ELSE review
                                        /\ nextRid' = IF reviewExists THEN nextRid + Len(rows)
                                                      ELSE nextRid
                                        /\ form' = MarkDone(form, pend, ok)
                                        /\ imported' = IF ok = 1..Cardinality(pend)
                                                        THEN imported \cup pend
                                                        ELSE imported
                                        /\ report' = IF ok = 1..Cardinality(pend)
                                                      THEN Report("import", "success", Len(rows), TRUE)
                                                      ELSE Report("import", "raised", 0, TRUE)
    /\ batch' = <<>>
    /\ summary' = NoSummary
    /\ clearLog' = <<>>
    /\ UNCHANGED <<impl, statusAtD, inflight, overlapped, clock, reviewExists, standbyExists, tm,
                 standby, removed>>


\* ---------------------------------------------------------- Import (app.py)
\* status != "Done" and a non-empty words cell
AppPending(f) == {i \in Indices(f) : f[i].status # Txt(DONE) /\ f[i].words # Empty}

RECURSIVE AppSlots(_, _)
AppSlots(f, i) ==
    IF i > Len(f) THEN <<>>
    ELSE (IF i \in AppPending(f)
          THEN LET ws == AppWords(f[i].words)
               IN [j \in 1..Len(ws) |-> [sub |-> i, word |-> ws[j]]]
          ELSE <<>>) \o AppSlots(f, i + 1)

\* new_rows: eight cells a row, the decision cell is the pending text
AppNewRows(f, t, oc, rid) ==
    LET slots == AppSlots(f, 1)
    IN [n \in 1..Len(slots) |->
          LET w == slots[n].word
              i == slots[n].sub
          IN ReviewRow(f[i].ts, f[i].school, w,
                       IF AppTmHas(t, w) THEN AppTmGet(t, w)
                       ELSE generate_sentence(w, oc[n]),
                       Txt(PENDING), rid + n - 1, i)]

\* GoogleSheetsManager.write_to_sheet(name, data, clear=True) on a table t:
\* how far it got -> <<table afterwards, return value>>
WriteOutcomes == {"ok", "cleared_only", "nothing"}
\* worksheet(name) raises when the table is missing
WriteResults(exists, faulty) ==
    IF ~exists THEN {"nothing"} ELSE IF faulty THEN WriteOutcomes ELSE {"ok"}
write_to_sheet(t, rows, how) ==
    CASE how = "ok" -> <<rows, TRUE>>
      [] how = "cleared_only" -> <<(<<>>), FALSE>>
      [] OTHER -> <<t, FALSE>>

\* GoogleSheetsManager.append_to_sheet
append_to_sheet(t, rows, how) ==
    IF how = "ok" THEN <<AppendRows(t, rows), TRUE>> ELSE <<t, FALSE>>

AppImport(replies, faulty) ==
    /\ impl = "app"
    \* get_sheet_data returns an empty frame when the read raised, and when
    \* the manager has no spreadsheet because the connection failed
    /\ \E conn, formRead, tmRead, reviewRead \in CallResults(faulty) :
       LET form_df == IF formRead THEN form ELSE <<>>
           p2_tm_df == IF tmRead THEN tm ELSE <<>>
           review_df == IF reviewRead /\ reviewExists THEN review ELSE <<>>
           pend == AppPending(form_df)
           slots == AppSlots(form_df, 1)
           miss == {n \in 1..Len(slots) : ~AppTmHas(p2_tm_df, slots[n].word)}
       IN /\ nextRid + Len(slots) <= MaxReview + 1
          /\ ~conn => (~formRead /\ ~tmRead /\ ~reviewRead)
          /\ IF form_df = <<>>
             THEN /\ conn => (tmRead /\ reviewRead)
                  /\ calls' = {}
                  /\ report' = Report("import", "empty", 0, conn)
                  /\ UNCHANGED <<form, review, nextRid, imported>>
             ELSE \E oc \in [miss -> replies] :
                  /\ KeyConsistent(oc)
                  /\ calls' = {<<"sentence", slots[n].sub, slots[n].word>> : n \in miss}
                  /\ IF slots = <<>>
                     THEN /\ report' = Report("import", "nothing", 0, conn)
                          /\ UNCHANGED <<form, review, nextRid, imported>>
                     ELSE \E how \in WriteResults(reviewExists, faulty),
                             ok \in CaughtCalls(Cardinality(pend), faulty) :
                          LET rows == AppNewRows(form_df, p2_tm_df, oc, nextRid)
                              res == IF review_df = <<>>
                                     THEN write_to_sheet(review, rows, how)
                                     ELSE append_to_sheet(review, rows, how)
                          IN /\ review_df # <<>> => how # "cleared_only"
                             /\ ~res[2] => ok = {}
                             /\ review' = res[1]
                             /\ nextRid' = IF how = "ok" THEN nextRid + Len(rows) ELSE nextRid
                             /\ form' = IF res[2] THEN MarkColumnD(form, pend, ok, statusAtD)
                                        ELSE form
                             /\ report' = IF res[2]
                                           THEN Report("import", "success", Len(rows), conn)
                                           ELSE Report("import", "nothing", 0, conn)
                             /\ imported' = IF /\ formRead /\ tmRead /\ reviewRead
                                                /\ res[2] /\ ok = 1..Cardinality(pend)
                                             THEN imported \cup pend
                                             ELSE imported
    /\ batch' = <<>>
    /\ summary' = NoSummary
    /\ clearLog' = <<>>
    /\ UNCHANGED <<impl, statusAtD, hung, inflight, overlapped, clock, reviewExists, standbyExists, tm, standby, removed>>

\* ------------------------------------------------------- reviewer's edits
\* need_decision: the rows whose decision is empty or the pending text
NeedDecision(r) == r.decision \in {Empty, Txt(PENDING)}

\* A "Set All to ..." button of the decision page: column H of every row
\* that needs a decision gets the button's text.
ReviewerDecide(buttons) ==
    /\ reviewExists
    /\ \E i \in Indices(review) : NeedDecision(review[i])
    /\ \E d \in buttons :
         review' = [i \in Indices(review) |->
                      IF NeedDecision(review[i]) THEN [review[i] EXCEPT !.decision = Txt(d)]
                      ELSE review[i]]
    /\ calls' = {}
    /\ batch' = <<>>
    /\ summary' = NoSummary
    /\ clearLog' = <<>>
    /\ report' = NoReport
    /\ UNCHANGED <<impl, statusAtD, hung, inflight, overlapped, clock, reviewExists, standbyExists, tm, form, standby, nextRid,
                 removed, imported>>

\* The reviewer picks a next-week type for a row that has none.
ReviewerType ==
    /\ reviewExists
    /\ \E i \in Indices(review), t \in QUESTION_TYPES :
         /\ review[i].next_type = Empty
         /\ review[i].word # Empty
         /\ review' = [review EXCEPT ![i].next_type = Txt(t)]
    /\ calls' = {}
    /\ batch' = <<>>
    /\ summary' = NoSummary
    /\ clearLog' = <<>>
    /\ report' = NoReport
    /\ UNCHANGED <<impl, statusAtD, hung, inflight, overlapped, clock, reviewExists, standbyExists, tm, form, standby, nextRid,
                 removed, imported>>

\* --------------------------------------------- question completion replies
\* full: an object with question and answer; no_question: an object with
\* an answer only; empty_object: {}; non_object: a JSON list
QOkOutcomes == {"full", "no_question", "empty_object", "non_object"}
QOutcomes == QOkOutcomes \cup FailOutcomes
CoreQOutcomes == {"full"}
LiveQOutcomes == {"full", "silent"}
QuestionText == <<"q">>
AnswerText == <<"r">>

\* the requests that failed: no reply, or a reply that is not an object
BadReplies == FailOutcomes \cup {"non_object"}

\* ai_service.generate_question_by_ai: <<is a dict, question, answer>>;
\* a non-object reply has no .get and ends in the except branch
generate_question_by_ai(oc) ==
    CASE oc = "full" -> <<TRUE, QuestionText, AnswerText>>
      [] oc = "no_question" -> <<TRUE, Empty, AnswerText>>
      [] oc = "empty_object" -> <<TRUE, Empty, Empty>>
      [] OTHER -> <<FALSE, Empty, Empty>>

\* ------------------------------------------- Question generation (pipeline)
\* has a type, no question yet, sentence without the AI icon
PipelineGenMask(r) ==
    /\ r.next_type # Empty
    /\ r.next_question = Empty
    /\ ~Contains(r.sentence, AI_ICON)

\* the loop over to_process: todo = the row numbers still to visit,
\* k = how many more update_cell calls succeed before one raises
\* (k = twice the number of successful completions: none raises).  Result:
\* the table, the rows for which the completion service was called, and
\* whether the run waits for a reply that never comes.
RECURSIVE PipelineGenLoop(_, _, _, _, _)
PipelineGenLoop(t, todo, oc, k, called) ==
    IF todo = <<>> THEN [table |-> t, called |-> called, hung |-> FALSE]
    ELSE LET i == Head(todo)
             result == generate_question_by_ai(oc[i])
             seen == called \cup {i}
         IN IF oc[i] = "silent" THEN [table |-> t, called |-> seen, hung |-> TRUE]
            ELSE IF ~result[1] THEN PipelineGenLoop(t, Tail(todo), oc, k, seen)
            ELSE IF k = 0 THEN [table |-> t, called |-> seen, hung |-> FALSE]
            ELSE LET t1 == [t EXCEPT ![i].next_question = AI_ICON \o result[2]]
                 IN IF k = 1 THEN [table |-> t1, called |-> seen, hung |-> FALSE]
                    ELSE PipelineGenLoop([t1 EXCEPT ![i].next_answer = result[3]],
                                         Tail(todo), oc, k - 2, seen)

\* the members of S in descending order
RECURSIVE Descending(_)
Descending(S) ==
    IF S = {} THEN <<>>
    ELSE LET m == CHOOSE x \in S : \A y \in S : x >= y
         IN <<m>> \o Descending(S \ {m})

\* the members of S in ascending order
RECURSIVE Ascending(_)
Ascending(S) ==
    IF S = {} THEN <<>>
    ELSE LET m == CHOOSE x \in S : \A y \in S : x <= y
         IN <<m>> \o Ascending(S \ {m})

PipelineGenerate(replies, faulty) ==
    /\ impl = "pipeline"
    /\ ~hung
    \* a Review table that is missing or has no record has no columns: KeyError
    /\ reviewExists /\ review # <<>>
    /\ LET todo == {i \in Indices(review) : PipelineGenMask(review[i])}
       IN \E oc \in [todo -> replies], k \in 0..(2 * Cardinality(todo)) :
            /\ KeyConsistent(oc)
            /\ LET run == PipelineGenLoop(review, Ascending(todo), oc, k, {})
                   \* the rows whose reply the run gets and writes
                   okRows == {i \in todo : /\ generate_question_by_ai(oc[i])[1]
                                           /\ run.hung => \E j \in run.called : i < j}
               IN /\ k <= 2 * Cardinality(okRows)
                  /\ ~faulty => k = 2 * Cardinality(okRows)
                  /\ review' = run.table
                  /\ hung' = run.hung
                  /\ calls' = {<<"question", i, review[i].word>> : i \in run.called}
                  \* processed += 1 for every row of to_process, result or not
                  /\ summary' = [kind |-> IF todo = {} THEN "nothing"
                                          ELSE IF k < 2 * Cardinality(okRows) THEN "raised"
                                          ELSE IF run.hung THEN "hung"
                                          ELSE "count",
                                 count |-> IF k < 2 * Cardinality(okRows) \/ run.hung THEN 0
                                           ELSE Cardinality(todo),
                                 full |-> {i \in run.called : oc[i] = "full"},
                                 bad |-> {i \in run.called : oc[i] \in BadReplies}]
    /\ batch' = <<>>
    /\ clearLog' = <<>>
    /\ report' = NoReport
    /\ UNCHANGED <<impl, statusAtD, inflight, overlapped, clock, reviewExists, standbyExists, tm,
                 form, standby, nextRid, removed, imported>>

\* ------------------------------------------------ Question generation (app)
\* AIProcessor.generate_question: what it returns, as <<kind, question,
\* answer>>.  Every failure comes back as a dict whose question is a
\* message; a reply is returned as parsed, whatever JSON value it is.
generate_question(oc) ==
    CASE oc = "no_key" -> <<"dict", NoKeyText, Empty>>
      [] oc = "full" -> <<"dict", QuestionText, AnswerText>>
      [] oc = "no_question" -> <<"dict", Empty, AnswerText>>
      [] oc = "empty_object" -> <<"falsy", Empty, Empty>>
      [] oc = "non_object" -> <<"list", Empty, Empty>>
      [] oc = "http" -> <<"dict", AI_ICON \o FailedText, Empty>>
      [] OTHER -> <<"dict", AI_ICON \o ErrorText, Empty>>

\* Series.notna() on a frame built from get_all_values: every cell is a
\* string, the empty string included, so it is never NaN
NotNa(cell) == TRUE

AppGenMask(r) ==
    /\ NotNa(r.word)
    /\ NotNa(r.sentence)
    /\ NotNa(r.next_type)
    /\ r.next_question = Empty
    /\ ~Contains(r.sentence, AI_ICON)

\* review_df.index[review_df[word] == row[word]].tolist()[0]
FirstWithWord(df, w) == CHOOSE i \in Indices(df) :
                          df[i].word = w /\ \A m \in Indices(df) : df[m].word = w => i <= m

\* the loop over to_process: df = the frame read at the start, okw = the
\* numbers of the update_cell calls that succeed, n = calls made so far
RECURSIVE AppGenLoop(_, _, _, _, _, _, _)
AppGenLoop(t, df, todo, oc, okw, n, called) ==
    IF todo = <<>> THEN [table |-> t, called |-> called]
    ELSE LET i == Head(todo)
             result == generate_question(oc[i])
             seen == called \cup {i}
         IN CASE result[1] = "falsy" -> AppGenLoop(t, df, Tail(todo), oc, okw, n, seen)
              \* result.get on a list: AttributeError, the run ends
              [] result[1] = "list" -> [table |-> t, called |-> seen]
              [] OTHER ->
                 LET row == FirstWithWord(df, df[i].word)
                     t1 == IF n + 1 \in okw
                           THEN [t EXCEPT ![row].next_question = AI_ICON \o result[2]]
                           ELSE t
                     t2 == IF n + 2 \in okw
                           THEN [t1 EXCEPT ![row].next_answer = result[3]]
                           ELSE t1
                 IN AppGenLoop(t2, df, Tail(todo), oc, okw, n + 2, seen)

AppGenerate(replies, faulty) ==
    /\ impl = "app"
    /\ \E reviewRead \in CallResults(faulty) :
       LET review_df == IF reviewRead /\ reviewExists THEN review ELSE <<>>
           todo == {i \in Indices(review_df) : AppGenMask(review_df[i])}
       IN \E oc \in [todo -> replies] :
            /\ KeyConsistent(oc)
            /\ LET dicts == {i \in todo : generate_question(oc[i])[1] = "dict"}
               IN \E okw \in CaughtCalls(2 * Cardinality(dicts), faulty) :
                    LET run == AppGenLoop(review, review_df, Ascending(todo), oc, okw, 0, {})
                        raised == \E i \in run.called : generate_question(oc[i])[1] = "list"
                    IN /\ review' = run.table
                       /\ calls' = {<<"question", i, review[i].word>> : i \in run.called}
                       \* processed_count += 1 for every truthy result
                       /\ summary' = [kind |-> IF todo = {} THEN "nothing"
                                               ELSE IF raised THEN "raised" ELSE "count",
                                      count |-> IF raised THEN 0 ELSE Cardinality(dicts),
                                      full |-> {i \in run.called : oc[i] = "full"},
                                      bad |-> {i \in run.called : oc[i] \in BadReplies}]
    /\ batch' = <<>>
    /\ clearLog' = <<>>
    /\ report' = NoReport
    /\ UNCHANGED <<impl, statusAtD, hung, inflight, overlapped, clock, reviewExists, standbyExists, tm, form, standby, nextRid,
                 removed, imported>>

\* ------------------------------------------------------------- Promotion
\* the timestamp token of unique_base and the created date of a run
\* (clock is the token of the last run that made one: the time a run reads
\* is not before the time an earlier run read, and may be the same)
Tokens == {t \in 1..MaxClock : t >= clock}
Today == Txt("d")

\* a Standby row with the question and answer cells in each other's place
StandbyItemSwapped(id, school, word, type, question, answer, state, src) ==
    [id |-> id, school |-> school, word |-> word, type |-> type,
     question |-> answer, answer |-> question, state |-> state,
     created |-> Today, src |-> src]

StandbyItem(id, school, word, type, question, answer, state, src) ==
    [id |-> id, school |-> school, word |-> word, type |-> type,
     question |-> question, answer |-> answer, state |-> state,
     created |-> Today, src |-> src]

\* Twins without the test of next_question: item B for every row
TwinsAlways(r, i, tok) ==
    <<StandbyItem(<<r.school, tok, i - 1, "_f">>, r.school, r.word, Txt(CLOZE),
                  r.sentence, r.word, Txt(READY), r.rid),
      StandbyItem(<<r.school, tok, i - 1, "_o">>, r.school, r.word, r.next_type,
                  r.next_question, r.next_answer, Txt(WAITING), r.rid)>>

\* Twins with a base made of school and token only
TwinsNoIndex(r, i, tok) ==
    <<StandbyItem(<<r.school, tok, 0, "_f">>, r.school, r.word, Txt(CLOZE),
                  r.sentence, r.word, Txt(READY), r.rid)>>
    \o (IF r.next_question # Empty
        THEN <<StandbyItem(<<r.school, tok, 0, "_o">>, r.school, r.word, r.next_type,
                           r.next_question, r.next_answer, Txt(WAITING), r.rid)>>
        ELSE <<>>)

\* Twins that leaves item A out when there is an item B
TwinsOrphan(r, i, tok) ==
    IF r.next_question # Empty
    THEN <<StandbyItem(<<r.school, tok, i - 1, "_o">>, r.school, r.word, r.next_type,
                       r.next_question, r.next_answer, Txt(WAITING), r.rid)>>
    ELSE <<StandbyItem(<<r.school, tok, i - 1, "_f">>, r.school, r.word, Txt(CLOZE),
                       r.sentence, r.word, Txt(READY), r.rid)>>

\* the one or two items of Review row i (frame index i - 1): item A always,
\* item B if next_question is non-empty
Twins(r, i, tok) ==
    <<StandbyItem(<<r.school, tok, i - 1, "_f">>, r.school, r.word, Txt(CLOZE),
                  r.sentence, r.word, Txt(READY), r.rid)>>
    \o (IF r.next_question # Empty
        THEN <<StandbyItem(<<r.school, tok, i - 1, "_o">>, r.school, r.word, r.next_type,
                           r.next_question, r.next_answer, Txt(WAITING), r.rid)>>
        ELSE <<>>)

RECURSIVE StandbyRows(_, _, _)
StandbyRows(df, todo, tok) ==
    IF todo = <<>> THEN <<>>
    ELSE Twins(df[Head(todo)], Head(todo), tok) \o StandbyRows(df, Tail(todo), tok)

\* PipelineMoveMask without its second line: no row is held back
PipelineMoveMaskNoHold(r) ==
    r.school # Empty /\ r.word # Empty /\ r.sentence # Empty

\* school, word and sentence present; a chosen type needs its question
PipelineMoveMask(r) ==
    /\ r.school # Empty /\ r.word # Empty /\ r.sentence # Empty
    /\ (r.next_type = Empty \/ r.next_question # Empty)

\* a clear_rows that leaves the cells as they are
ClearedRowKept(r) == r

\* SheetsClient.clear_rows(review, n, n): the range A:Z of the row
ClearedRow(r) ==
    [c \in DOMAIN r |-> IF c \in {"rid", "sub"} THEN r[c] ELSE Empty]

\* the first k + 1 members of a sequence of calls of which k succeeded
\* before one raised (all of them when none raised)
Attempted(todo, k) == SubSeq(todo, 1, IF k < Len(todo) THEN k + 1 ELSE Len(todo))

PipelineMove(faulty) ==
    /\ impl = "pipeline"
    /\ ~hung
    \* a Review table that is missing or has no record has no columns: KeyError
    /\ reviewExists /\ review # <<>>
    /\ calls' = {}
    /\ LET to_move == {i \in Indices(review) : PipelineMoveMask(review[i])}
       IN IF to_move = {}
          THEN /\ batch' = <<>> /\ clearLog' = <<>>
               /\ report' = Report("move", "nothing", 0, TRUE)
               /\ UNCHANGED <<review, standby, removed, clock>>
          ELSE \E tok \in Tokens, appended \in CallResults(faulty),
                  ok \in RaisingCalls(Cardinality(to_move), faulty) :
               LET rows == StandbyRows(review, Ascending(to_move), tok)
                   gone == {i \in to_move : Rank(i, to_move) \in ok}
               IN /\ Len(standby) + Len(rows) <= MaxStandby
                  /\ batch' = rows
                  /\ clock' = tok
                  /\ IF ~appended
                     \* append_rows raised: the run ends there
                     THEN /\ standbyExists /\ ok = {} /\ clearLog' = <<>>
                          /\ report' = Report("move", "raised", 0, TRUE)
                          /\ UNCHANGED <<review, standby, removed>>
                     \* SheetsClient.append_rows does nothing, silently,
                     \* when get_sheet found no worksheet
                     ELSE /\ standby' = IF standbyExists THEN AppendRows(standby, rows)
                                        ELSE standby
                          \* the clear_rows calls made: up to the one that raised
                          /\ clearLog' = Attempted(Ascending(to_move), Cardinality(ok))
                          /\ review' = Trim([i \in Indices(review) |->
                                              IF i \in gone THEN ClearedRow(review[i])
                                              ELSE review[i]])
                          /\ removed' = removed \cup {review[i].rid : i \in gone}
                          \* a clear_rows that raises ends the run before its
                          \* final message
                          /\ report' = IF gone = to_move
                                        THEN Report("move", "success", Len(rows), TRUE)
                                        ELSE Report("move", "raised", 0, TRUE)
    /\ summary' = NoSummary
    /\ UNCHANGED <<impl, statusAtD, hung, inflight, overlapped, reviewExists, standbyExists, tm, form, nextRid, imported>>

\* all(row.get(field) for field in required_fields)
AppRequired(r) == r.school # Empty /\ r.word # Empty /\ r.sentence # Empty

AppMoveEligible(r) ==
    /\ AppRequired(r)
    /\ r.decision \in {Txt(d) : d \in Accepting}
    /\ ~(r.next_type # Empty /\ r.next_question = Empty)

\* update_cell(review, <column><idx + 2>, "") for columns A to G of the rows
\* of S: the call for column c of the row of rank k is call 7 * (k - 1) + c
AppClear(t, S, okc) ==
    [i \in Indices(t) |->
        IF i \notin S THEN t[i]
        ELSE [f \in DOMAIN t[i] |->
                IF \E c \in 1..7 : ReviewCols[c] = f /\ 7 * (Rank(i, S) - 1) + c \in okc
                THEN Empty ELSE t[i][f]]]

AppMove(faulty) ==
    /\ impl = "app"
    /\ calls' = {}
    /\ \E reviewRead, standbyRead \in CallResults(faulty) :
       LET review_df == IF reviewRead /\ reviewExists THEN review ELSE <<>>
           standby_df == IF standbyRead /\ standbyExists THEN standby ELSE <<>>
           rows_to_clear == {i \in Indices(review_df) : AppMoveEligible(review_df[i])}
       IN IF rows_to_clear = {}
          THEN /\ standbyRead /\ batch' = <<>> /\ clearLog' = <<>>
               /\ report' = Report("move", IF review_df = <<>> THEN "empty" ELSE "nothing",
                                   0, TRUE)
               /\ UNCHANGED <<review, standby, removed, clock>>
          ELSE \E tok \in Tokens, how \in WriteResults(standbyExists, faulty),
                  okc \in CaughtCalls(7 * Cardinality(rows_to_clear), faulty) :
               LET standby_data == StandbyRows(review_df, Ascending(rows_to_clear), tok)
                   res == IF standby_df = <<>>
                          THEN write_to_sheet(standby, standby_data, how)
                          ELSE append_to_sheet(standby, standby_data, how)
               IN /\ Len(standby) + Len(standby_data) <= MaxStandby
                  /\ batch' = standby_data
                  /\ clock' = tok
                  /\ standby_df # <<>> => how # "cleared_only"
                  /\ ~res[2] => okc = {}
                  /\ standby' = res[1]
                  /\ review' = IF res[2] THEN Trim(AppClear(review, rows_to_clear, okc))
                               ELSE review
                  \* for idx in rows_to_clear: a failed update_cell is reported
                  \* and the loop goes on
                  /\ clearLog' = IF res[2] THEN Ascending(rows_to_clear) ELSE <<>>
                  \* the final message and the return value do not depend on
                  \* what the update_cell calls returned
                  /\ report' = IF res[2]
                                THEN Report("move", "success", Len(standby_data), TRUE)
                                ELSE Report("move", "nothing", 0, TRUE)
                  /\ removed' = IF res[2]
                                THEN removed \cup
                                     {review[i].rid : i \in
                                        {j \in rows_to_clear :
                                           \A c \in 1..7 : 7 * (Rank(j, rows_to_clear) - 1) + c \in okc}}
                                ELSE removed
    /\ summary' = NoSummary
    /\ UNCHANGED <<impl, statusAtD, hung, inflight, overlapped, reviewExists, standbyExists, tm, form, nextRid, imported>>

\* ------------------------------------------ Promotion, run side by side
\* An invocation of Promotion as the three steps between which another
\* invocation can act: it reads the tables and builds its records, it
\* writes the records to Standby, it clears the rows in Review.  The
\* spreadsheet calls succeed.  Nothing in move_to_standby tests whether
\* another invocation is between its read and its clearing.
ConcRead(p) ==
    /\ inflight[p].pc = "idle"
    \* without records in Review a run ends at once
    /\ reviewExists /\ review # <<>>
    /\ LET todo == {i \in Indices(review) :
                     IF impl = "pipeline" THEN PipelineMoveMask(review[i])
                     ELSE AppMoveEligible(review[i])}
       IN /\ todo # {}
          /\ \E tok \in Tokens :
               /\ clock' = tok
               /\ inflight' = [inflight EXCEPT ![p] =
                                 [pc |-> "read", todo |-> todo,
                                  rows |-> StandbyRows(review, Ascending(todo), tok),
                                  fresh |-> (~standbyExists \/ standby = <<>>)]]
    /\ overlapped' = (overlapped \/ \E q \in Procs \ {p} : inflight[q].pc # "idle")
    /\ calls' = {}
    /\ batch' = <<>>
    /\ summary' = NoSummary
    /\ clearLog' = <<>>
    /\ report' = NoReport
    /\ UNCHANGED <<impl, statusAtD, hung, reviewExists, standbyExists, tm, form, review,
                 standby, nextRid, removed, imported>>

ConcAppend(p) ==
    /\ inflight[p].pc = "read"
    /\ Len(standby) + Len(inflight[p].rows) <= MaxStandby
    /\ LET rows == inflight[p].rows
           how == IF standbyExists THEN "ok" ELSE "nothing"
           res == IF impl = "pipeline"
                  \* SheetsClient.append_rows does nothing, silently, when
                  \* get_sheet found no worksheet
                  THEN <<IF standbyExists THEN AppendRows(standby, rows) ELSE standby, TRUE>>
                  ELSE IF inflight[p].fresh THEN write_to_sheet(standby, rows, how)
                  ELSE append_to_sheet(standby, rows, how)
       IN /\ standby' = res[1]
          /\ batch' = rows
          \* if success: ... ; a refused write ends the run
          /\ inflight' = IF res[2] THEN [inflight EXCEPT ![p].pc = "appended"]
                          ELSE [inflight EXCEPT ![p] = IdleRun]
    /\ calls' = {}
    /\ summary' = NoSummary
    /\ clearLog' = <<>>
    /\ report' = NoReport
    /\ UNCHANGED <<impl, statusAtD, hung, overlapped, clock, reviewExists, standbyExists, tm,
                 form, review, nextRid, removed, imported>>

ConcClear(p) ==
    /\ inflight[p].pc = "appended"
    \* clearing cells below the last row that holds data changes nothing
    /\ LET todo == inflight[p].todo \cap Indices(review)
       IN /\ review' = IF impl = "pipeline"
                       THEN Trim([i \in Indices(review) |->
                                    IF i \in todo THEN ClearedRow(review[i])
                                    ELSE review[i]])
                       ELSE Trim(AppClear(review, todo, 1..(7 * Cardinality(todo))))
          /\ removed' = removed \cup {review[i].rid : i \in todo}
    /\ inflight' = [inflight EXCEPT ![p] = IdleRun]
    /\ calls' = {}
    /\ batch' = <<>>
    /\ summary' = NoSummary
    /\ clearLog' = <<>>
    /\ report' = NoReport
    /\ UNCHANGED <<impl, statusAtD, hung, overlapped, clock, reviewExists, standbyExists, tm,
                 form, standby, nextRid, imported>>

\* ------------------------------------------------------------ the pipeline
\* All three stages; the failures explored are those of Promotion.
Next ==
    \/ FormSubmit(CoreRawLists)
    \/ PipelineImport(CoreOutcomes, FALSE)
    \/ AppImport(CoreOutcomes, FALSE)
    \/ ReviewerDecide(CoreButtons)
    \/ ReviewerType
    \/ PipelineGenerate(CoreQOutcomes, FALSE)
    \/ AppGenerate(CoreQOutcomes, FALSE)
    \/ PipelineMove(TRUE)
    \/ AppMove(TRUE)

Spec == Init /\ [][Next]_vars

\* The Import stage alone, over every enumerated word list and reply.
NextImport ==
    \/ FormSubmit(RawLists)
    \/ PipelineImport(Outcomes, TRUE)
    \/ AppImport(Outcomes, TRUE)

SpecImport == Init /\ [][NextImport]_vars

\* Question Generation with every outcome of the completion requests; its
\* spreadsheet calls succeed.
NextGen ==
    \/ FormSubmit(CoreRawLists)
    \/ PipelineImport(CoreOutcomes, FALSE)
    \/ AppImport(CoreOutcomes, FALSE)
    \/ ReviewerType
    \/ PipelineGenerate(QOutcomes, FALSE)
    \/ AppGenerate(QOutcomes, FALSE)
SpecGen == Init /\ [][NextGen]_vars

\* The three stages with every outcome of the completion requests; the
\* spreadsheet calls succeed.
NextMarker ==
    \/ FormSubmit(MixedRawLists)
    \/ PipelineImport(Outcomes, FALSE)
    \/ AppImport(Outcomes, FALSE)
    \/ ReviewerDecide({"keep"})
    \/ ReviewerType
    \/ PipelineGenerate(QOutcomes, FALSE)
    \/ AppGenerate(QOutcomes, FALSE)
    \/ PipelineMove(FALSE)
    \/ AppMove(FALSE)
SpecMarker == Init /\ [][NextMarker]_vars

\* Import and Question Generation with a completion endpoint that may stay
\* silent; the spreadsheet calls succeed.  A step that can be taken is
\* taken in the end.
NextLive ==
    \/ FormSubmit(MixedRawLists)
    \/ PipelineImport(LiveOutcomes, FALSE)
    \/ AppImport(LiveOutcomes, FALSE)
    \/ ReviewerType
    \/ PipelineGenerate(LiveQOutcomes, FALSE)
    \/ AppGenerate(LiveQOutcomes, FALSE)
SpecLive == Init /\ [][NextLive]_vars /\ WF_vars(NextLive)

\* Import, the reviewer's decision and two invocations of Promotion whose
\* steps interleave; the spreadsheet calls succeed.
NextConc ==
    \/ FormSubmit(CoreRawLists)
    \/ PipelineImport(CoreOutcomes, FALSE)
    \/ AppImport(CoreOutcomes, FALSE)
    \/ ReviewerDecide({"keep"})
    \/ \E p \in Procs : ConcRead(p)
    \/ \E p \in Procs : ConcAppend(p)
    \/ \E p \in Procs : ConcClear(p)
SpecConc == Init /\ [][NextConc]_vars


\* ================================================================= claims
\* what a step did to Review row i, and the items of a batch made of it
AcceptingTexts == {Txt(d) : d \in Accepting}
RequiredPresent(r) == r.school # Empty /\ r.word # Empty /\ r.sentence # Empty
HeldBack(r) == r.next_type # Empty /\ r.next_question = Empty
ItemsOf(items, rid, suffix) ==
    {k \in DOMAIN items : items[k].src = rid /\ items[k].id[4] = suffix}
ClearedAt(i) == i > Len(review') \/ review'[i] # review[i]

\* C1: a Promotion run emits records for a Review row, or clears it, only
\* if the row's decision is one of the two accepting values.
C1_PromotionNeedsAcceptedDecision ==
    [][batch' # <<>> =>
         \A i \in Indices(review) :
           (ItemsOf(batch', review[i].rid, "_f") # {} \/ ClearedAt(i))
             => review[i].decision \in AcceptingTexts]_vars

\* C2: every Review row a Promotion run clears has its item A in Standby
\* when the run ends.
C2_ClearedOnlyAfterAppend ==
    [][batch' # <<>> =>
         \A i \in Indices(review) :
           ClearedAt(i) => ItemsOf(standby', review[i].rid, "_f") # {}]_vars

\* C3: when Import sets a Submission's status to Done, Review holds a new
\* ReviewItem for every word of that Submission's word list.
C3_DoneOnlyAfterAppend ==
    [][\A i \in Indices(form) :
         (form[i].status # Txt(DONE) /\ form'[i].status = Txt(DONE)) =>
           LET ws == IF impl = "pipeline" THEN PipelineWords(form[i].words)
                     ELSE AppWords(form[i].words)
           IN \A j \in 1..Len(ws) :
                \E k \in Indices(review') :
                  /\ review'[k].rid >= nextRid
                  /\ review'[k].sub = i
                  /\ review'[k].word = ws[j]]_vars

\* C4 (as claimed): Standby never holds two item-A records or two item-B
\* records made of the same Review row.
C4_NoTwoItemsOfOneRow ==
    \A k, m \in Indices(standby) :
      (standby[k].src = standby[m].src /\ standby[k].id[4] = standby[m].id[4]) => k = m

\* C4 (amended): a Promotion run hands the Standby write no record of a
\* Review row whose clearing by an earlier run completed.
C4_RemovedRowNeverEmittedAgain ==
    [][\A k \in DOMAIN batch' : batch'[k].src \notin removed]_vars

\* a Promotion run has emitted records after an earlier run promoted a row
\* into Standby and removed it from Review
C4_Witness ==
    /\ batch # <<>>
    /\ \E rid \in removed :
         /\ ItemsOf(standby, rid, "_f") # {}
         /\ \A k \in DOMAIN batch : batch[k].src # rid

\* C5 (as claimed): a Promotion run emits no item B for a row with an empty
\* next_question and exactly one item A for every row whose school, word
\* and sentence are present.
C5_ItemAForEveryCompleteRow ==
    [][batch' # <<>> =>
         \A i \in Indices(review) :
           /\ review[i].next_question = Empty => ItemsOf(batch', review[i].rid, "_o") = {}
           /\ RequiredPresent(review[i]) =>
                Cardinality(ItemsOf(batch', review[i].rid, "_f")) = 1]_vars

\* C5 (amended): a Promotion run emits no item B for a row with an empty
\* next_question; every row it emits a record for has its required fields
\* and gets exactly one item A and at most one item B; and it emits item A
\* for every row that has its required fields, is not held back and has an
\* accepting decision.
C5_TwinsOfPromotedRows ==
    [][batch' # <<>> =>
         \A i \in Indices(review) :
           LET nf == Cardinality(ItemsOf(batch', review[i].rid, "_f"))
               no == Cardinality(ItemsOf(batch', review[i].rid, "_o"))
           IN /\ review[i].next_question = Empty => no = 0
              /\ nf + no > 0 => (nf = 1 /\ no <= 1 /\ RequiredPresent(review[i]))
              /\ ( /\ RequiredPresent(review[i])
                   /\ ~HeldBack(review[i])
                   /\ review[i].decision \in AcceptingTexts )
                 => nf = 1]_vars

\* a run emitted item A alone for one row while a row with all required
\* fields stayed behind in Review
C5_Witness ==
    /\ Len(batch) = 1
    /\ batch[1].id[4] = "_f"
    /\ \E i \in Indices(review) :
         RequiredPresent(review[i]) /\ review[i].rid # batch[1].src

\* C6: a Promotion run emits records only for rows whose school, word and
\* sentence are all non-empty, and a row with a next-week type but no
\* next-week question gets no record and is left unchanged in Review.
C6_HeldBackUntouched ==
    [][batch' # <<>> =>
         \A i \in Indices(review) :
           /\ (\E k \in DOMAIN batch' : batch'[k].src = review[i].rid)
                => RequiredPresent(review[i])
           /\ HeldBack(review[i]) =>
                /\ \A k \in DOMAIN batch' : batch'[k].src # review[i].rid
                /\ i <= Len(review')
                /\ review'[i] = review[i]]_vars

\* a run promoted one row while a held-back row with its required fields
\* and an accepting decision stayed in Review
C6_Witness ==
    /\ batch # <<>>
    /\ \E i \in Indices(review) :
         /\ HeldBack(review[i])
         /\ RequiredPresent(review[i])
         /\ review[i].decision \in AcceptingTexts

\* C7: Question Generation calls the completion service for a Review row
\* only if the row has a word, a sentence, a requested type, no question
\* yet and a sentence without the AI marker.
C7_CompletionOnlyForEligibleRows ==
    [][\A c \in calls' :
         c[1] = "question" =>
           LET r == review[c[2]]
           IN /\ r.word # Empty
              /\ r.sentence # Empty
              /\ r.next_type # Empty
              /\ r.next_question = Empty
              /\ ~Contains(r.sentence, AI_ICON)]_vars

\* C8: when every completion of a Question Generation run succeeds and
\* every write succeeds, each row the service was called for holds the
\* generated question and answer afterwards, and no other row changed.
C8_QuestionLandsInItsOwnRow ==
    [][(\E c \in calls' : c[1] = "question") =>
         \A i \in Indices(review) :
           IF <<"question", i, review[i].word>> \in calls'
           THEN /\ review'[i].next_question = AI_ICON \o QuestionText
                /\ review'[i].next_answer = AnswerText
           ELSE review'[i] = review[i]]_vars

\* C9: Import makes no completion request for a word that the reference
\* table holds, and stores the table's sentence for it.
C9_LookupHitSuppressesSynthesis ==
    [][/\ \A c \in calls' : c[1] = "sentence" => ~PipelineTmHas(tm, c[3])
       /\ \A k \in Indices(review') :
            (review'[k].rid >= nextRid /\ PipelineTmHas(tm, review'[k].word))
              => review'[k].sentence = PipelineTmGet(tm, review'[k].word)]_vars

\* C10: the sentence Import stores for a word that the reference table
\* does not hold begins with the marker and contains the word.
C10_SynthesizedSentenceHasMarkerAndWord ==
    \A k \in Indices(review) :
      ~PipelineTmHas(tm, review[k].word) =>
        /\ StartsWith(review[k].sentence, AI_ICON)
        /\ Contains(review[k].sentence, review[k].word)


\* C11: when an Import run all of whose calls succeeded has processed every
\* Submission of the intake table, a step that adds no Submission appends
\* no row to Review, makes no sentence request and changes no intake cell.
C11_SecondImportIsNoOp ==
    [][( /\ form # <<>>
         /\ \A i \in Indices(form) : i \in imported
         /\ Len(form') = Len(form) )
       => /\ nextRid' = nextRid
          /\ \A c \in calls' : c[1] # "sentence"
          /\ form' = form]_vars


\* the words of the rows that a step appended to Review for intake row i
AppendedWords(i) ==
    LET new == SelectSeq(review', LAMBDA r : r.rid >= nextRid /\ r.sub = i)
    IN [k \in 1..Len(new) |-> new[k].word]

\* C12: an Import run that appends rows appends, for every Submission whose
\* status is not Done, one row per trimmed non-empty token of its word list
\* split on comma, full-width comma, whitespace and ideographic comma, in
\* order, and no row with an empty word.
C12_OneRowPerToken ==
    [][nextRid' > nextRid =>
         \A i \in Indices(form) :
           form[i].status # Txt(DONE) =>
             /\ AppendedWords(i) = StripNonEmpty(ReSplit(form[i].words, <<>>, FALSE))
             /\ \A k \in DOMAIN AppendedWords(i) : AppendedWords(i)[k] # Empty]_vars


\* the rows a Question Generation run takes up, by the mask of its
\* implementation
GenEligible(r) == IF impl = "pipeline" THEN PipelineGenMask(r) ELSE AppGenMask(r)

\* C13: a Question Generation run whose spreadsheet calls succeed ends
\* without an exception and makes a completion request for every eligible
\* row, whatever the requests of the earlier rows came to.
C13_FailureDoesNotAbortBatch ==
    [][summary'.kind # "none" =>
         /\ summary'.kind # "raised"
         /\ \A i \in Indices(review) :
              GenEligible(review[i]) => <<"question", i, review[i].word>> \in calls']_vars

\* C14: the count a Question Generation run reports as generated includes
\* every row whose request brought a question that was written and no row
\* whose request failed.
C14_CountIsSuccessesOnly ==
    [][summary'.kind = "count" =>
         LET called == {c[2] : c \in calls'}
             written == {i \in summary'.full :
                           review'[i].next_question = AI_ICON \o QuestionText}
         IN /\ Cardinality(written) <= summary'.count
            /\ summary'.count <= Cardinality(called \ summary'.bad)]_vars

\* C15: a Question Generation run that directly follows a run in which
\* every completion request brought a question object makes no completion
\* request and writes no cell.
C15_SecondGenerationIsNoOp ==
    [][( /\ summary.kind = "count"
         /\ summary.full = {c[2] : c \in calls}
         /\ summary'.kind # "none" )
       => /\ calls' = {}
          /\ review' = review]_vars


C17_TwinContents ==
    [][batch' # <<>> =>
         /\ \A k \in DOMAIN batch' :
              \E i \in Indices(review) :
                LET r == review[i]
                    it == batch'[k]
                IN /\ r.rid = it.src
                   /\ it.school = r.school
                   /\ it.word = r.word
                   /\ it.id[1] = r.school
                   /\ it.id[3] = i - 1
                   /\ IF it.id[4] = "_f"
                      THEN /\ it.type = Txt(CLOZE)
                           /\ it.question = r.sentence
                           /\ it.answer = r.word
                           /\ it.state = Txt(READY)
                      ELSE /\ it.id[4] = "_o"
                           /\ it.type = r.next_type
                           /\ it.question = r.next_question
                           /\ it.answer = r.next_answer
                           /\ it.state = Txt(WAITING)
         /\ \A k, m \in DOMAIN batch' :
              batch'[k].src = batch'[m].src =>
                /\ SubSeq(batch'[k].id, 1, 3) = SubSeq(batch'[m].id, 1, 3)
                /\ batch'[k].created = batch'[m].created]_vars

\* a Promotion run emitted item A and item B of one row
C17_Witness ==
    /\ Len(batch) = 2
    /\ batch[1].src = batch[2].src
    /\ batch[1].id[4] = "_f"
    /\ batch[2].id[4] = "_o"


\* unique_base of a Standby record: its id without the suffix
BaseOf(it) == SubSeq(it.id, 1, 3)

\* every Waiting item of a table has a Ready item with the same base,
\* school and word
HasSiblings(items) ==
    \A k \in DOMAIN items :
      items[k].state = Txt(WAITING) =>
        /\ items[k].id[4] = "_o"
        /\ \E m \in DOMAIN items :
             /\ items[m].id[4] = "_f"
             /\ items[m].state = Txt(READY)
             /\ BaseOf(items[m]) = BaseOf(items[k])
             /\ items[m].school = items[k].school
             /\ items[m].word = items[k].word

\* C18 (as claimed): every Waiting item of Standby has a Ready sibling with
\* the same base, school and word, and no two Standby items have the same
\* id.
C18_PairsAndUniqueIds ==
    /\ HasSiblings(standby)
    /\ \A k, m \in Indices(standby) : standby[k].id = standby[m].id => k = m

\* C18 (amended): every Waiting item of Standby has a Ready sibling with
\* the same base, school and word, and among the records of one Promotion
\* run no base has more than one item A or more than one item B.
C18_PairsAndUniqueIdsPerRun ==
    /\ HasSiblings(standby)
    /\ \A k, m \in DOMAIN batch : batch[k].id = batch[m].id => k = m

\* Standby holds the pair of one row
C18_Witness ==
    /\ Len(standby) = 2
    /\ standby[1].state = Txt(READY)
    /\ standby[2].state = Txt(WAITING)
    /\ BaseOf(standby[1]) = BaseOf(standby[2])


\* C19: the records a Promotion run emits have pairwise distinct ids, and
\* the records of two different Review rows have different bases.
C19_IdsDistinctWithinRun ==
    [][\A k, m \in DOMAIN batch' :
         /\ batch'[k].src # batch'[m].src => BaseOf(batch'[k]) # BaseOf(batch'[m])
         /\ k # m => batch'[k].id # batch'[m].id]_vars

\* a run promoted two rows of the same school with the same token
C19_Witness ==
    \E k, m \in DOMAIN batch :
      /\ batch[k].src # batch[m].src
      /\ batch[k].id[1] = batch[m].id[1]
      /\ batch[k].id[2] = batch[m].id[2]


\* the cells of Review row i differ after the step (a blank row that drops
\* off the end of the frame has not changed)
CellsChangedAt(i) == IF i <= Len(review') THEN review'[i] # review[i]
                     ELSE ~IsBlank(review[i])

\* every clearing call of a Promotion run is made for a row the run emitted
\* a record for, the rows it changed are among those calls, and no row
\* changes its position
ClearingHitsPromotedRows ==
    /\ \A k \in DOMAIN clearLog' :
         /\ clearLog'[k] \in Indices(review)
         /\ ItemsOf(batch', review[clearLog'[k]].rid, "_f") # {}
    /\ \A i \in Indices(review) :
         CellsChangedAt(i) => \E k \in DOMAIN clearLog' : clearLog'[k] = i
    /\ \A i \in Indices(review') : review'[i].rid = review[i].rid

PromotedRows == {i \in Indices(review) : ItemsOf(batch', review[i].rid, "_f") # {}}

\* after the step, row i still holds a cell of the columns A to G
StillHolds(i) ==
    /\ i <= Len(review')
    /\ \E c \in 1..7 : review'[i][ReviewCols[c]] # Empty

\* C21: a Promotion run whose clearing stopped half-way (a promoted row
\* has its cells emptied, another still holds cells) does not end with the final
\* message and count of a run that cleared every row.
C21_PartialClearingIsReported ==
    [][( /\ report'.stage = "move"
         /\ \E i \in PromotedRows : ~StillHolds(i)
         /\ \E i \in PromotedRows : StillHolds(i) )
       => report' # Report("move", "success", Len(batch'), TRUE)]_vars


\* C22: an Import run that has no connection to the spreadsheet does not
\* end as a run that found the table empty or nothing to process, nor as a
\* run that went through with a failed completion request (which ends with
\* the success message), and it writes no cell.
C22_ConnectionFailureIsDistinct ==
    [][(report'.stage = "import" /\ report'.backend = "down")
       => /\ report'.kind \notin {"empty", "nothing", "success"}
          /\ form' = form
          /\ review' = review]_vars


\* C23: an Import or Question Generation invocation that waits for a
\* completion reply stops waiting in the end: the request is bounded by a
\* timeout, fails for its item, and the run goes on.
C23_InvocationsTerminate == hung ~> ~hung


\* C24: no step removes an intake row; a step changes an intake row only
\* by setting its status cell to Done, and only an Import run does that,
\* for a row whose status was not Done.
C24_IntakeOnlyStatusFlip ==
    [][/\ Len(form') >= Len(form)
       /\ \A i \in Indices(form) :
            \/ form'[i] = form[i]
            \/ /\ report'.stage = "import"
               /\ form[i].status # Txt(DONE)
               /\ form'[i] = [form[i] EXCEPT !.status = Txt(DONE)]]_vars


\* C25: every Standby record present before a Promotion run is present,
\* unchanged and at the same place after it.
C25_StandbyAppendOnly ==
    [][report'.stage = "move" =>
         /\ Len(standby') >= Len(standby)
         /\ \A k \in Indices(standby) : standby'[k] = standby[k]]_vars


\* C27: every Review row present before an Import run is present,
\* unchanged and at the same place after it.
C27_ImportKeepsReviewRows ==
    [][report'.stage = "import" =>
         /\ Len(review') >= Len(review)
         /\ \A k \in Indices(review) : review'[k] = review[k]]_vars


\* the texts a failed question request leaves in a next_question cell
ErrorQuestions == {AI_ICON \o NoKeyText, AI_ICON \o AI_ICON \o FailedText,
                   AI_ICON \o AI_ICON \o ErrorText}

\* C28: a Question Generation run leaves the next_question and next_answer
\* cells of a row whose completion request failed as they were, so the row
\* is eligible for the next run; and no item B of Standby has an error text
\* as its question.
C28_FailedRequestWritesNothing ==
    /\ [][\A i \in summary'.bad :
            /\ review'[i].next_question = review[i].next_question
            /\ review'[i].next_answer = review[i].next_answer
            /\ GenEligible(review'[i])]_vars
    /\ [](\A k \in Indices(standby) :
            standby[k].id[4] = "_o" => standby[k].question \notin ErrorQuestions)


\* a row that Promotion may not take: a required field is missing, the
\* decision is not an accepting one, or the row is held back
NotEligible(r) ==
    \/ ~RequiredPresent(r)
    \/ r.decision \notin AcceptingTexts
    \/ HeldBack(r)

\* C29: in a Promotion run whose calls succeed, every row that is not
\* eligible and every row the run emitted no record for keeps all its
\* cells, and every row it emitted a record for has all its cells, the
\* decision cell included, emptied.
C29_PromotionChangesOnlyPromotedRows ==
    [][report'.stage = "move" =>
         \A i \in Indices(review) :
           /\ (NotEligible(review[i]) \/ i \notin PromotedRows) => ~CellsChangedAt(i)
           /\ (i \in PromotedRows /\ report'.kind = "success") =>
                (i > Len(review') \/ IsBlank(review'[i]))]_vars


\* Standby holds two item A records, or two item B records, of one Review
\* row
Duplicates ==
    \E k, m \in Indices(standby) :
      /\ k # m
      /\ standby[k].src = standby[m].src
      /\ standby[k].id[4] = standby[m].id[4]

\* C26: Standby holds two records of the same kind for one Review row only
\* if an invocation of Promotion read the tables while another one was
\* between its read and the end of its clearing: no run of the invocations
\* one after the other leads there.
C26_DuplicatesOnlyByInterleaving == Duplicates => overlapped

\* two invocations read a row before either cleared it, and Standby holds
\* the row's item A twice
C26_Witness ==
    /\ Duplicates
    /\ overlapped
    /\ \A p \in Procs : inflight[p].pc = "idle"

=============================================================================
